---- MODULE Spec2Model ----
(***************************************************************************)
(* Controller arbitration and stream multiplexing of the P4Runtime server: *)
(* SdnControllerManager (sdn_controller_manager.cc) and the RPC handlers   *)
(* of P4RtServer (p4rt_server.cc).                                         *)
(*                                                                         *)
(* A connection is identified by the address of its SdnConnection object.  *)
(* connections_ is a vector of such addresses.  Every manager entry point  *)
(* holds lock_ for its whole duration, so each is one atomic action; the   *)
(* steps of a handler between two manager calls are separate actions.      *)
(***************************************************************************)
EXTENDS Integers, Sequences, FiniteSets, TLC

\* ------------------------------------------------------------------ bounds
NumConns == 2        \* addresses at which an SdnConnection can live
MaxElection == 2     \* election ids are 1..MaxElection
MaxDevice == 2       \* device ids are 0..MaxDevice
MaxConnLen == 2      \* cap on the length of connections_
MaxLongLen == 3      \* the cap where only arbitration traffic is explored

Conns == 1..NumConns
None == -1           \* absl::nullopt
NoEntry == -2        \* key missing in election_id_past_by_role_
ElectionIds == 1..MaxElection
OptElection == {None} \cup ElectionIds
DeviceIds == 0..MaxDevice
RoleNames == {"x"}
Roles == {"none"} \cup RoleNames          \* "none" is the absent (root) role
MsgRoles == {"unset", ""} \cup RoleNames  \* role field of a message

VARIABLES
  obj,          \* obj[c]: the SdnConnection at address c
  connections,  \* connections_
  past,         \* election_id_past_by_role_
  device_id,    \* device_id_
  pc,           \* pc[c]: where the StreamChannel handler of c stands
  rpc,          \* the unary RPC in progress
  sent,         \* stream writes of the last step, in order
  last,         \* the last manager call: its arguments and its result
  lock,         \* lock_ is held
  todo          \* todo[c]: the entries the broadcast of c's operation has
                \* still to visit

vars == <<obj, connections, past, device_id, pc, rpc, sent, last, lock, todo>>

\* ------------------------------------------------------- optional values
HasValue(x) == x # None

\* operator< of absl::optional: nullopt is less than every value
OptLess(a, b) == IF a = None THEN b # None ELSE (b # None /\ a < b)

OptMax(a, b) == IF OptLess(a, b) THEN b ELSE a

\* ---------------------------------------------------------- connections
\* a newly constructed SdnConnection
FreshObj == [live |-> TRUE, init |-> FALSE, role |-> "none", eid |-> None]

\* the address holds no object and nothing refers to it
NoObj == [live |-> FALSE, init |-> FALSE, role |-> "none", eid |-> None]

Range(s) == {s[i] : i \in 1..Len(s)}

\* the object at c is destroyed; a pointer left in conns keeps reading the
\* freed memory
Destroy(o, conns, c) ==
  IF c \in Range(conns) THEN [o EXCEPT ![c].live = FALSE]
  ELSE [o EXCEPT ![c] = NoObj]

\* ------------------------------------------------------------- parsing
ParseRole(mrole) == IF mrole = "unset" \/ mrole = "" THEN "none" ELSE mrole

\* meid is None when the message has no election_id field
ParseElection(meid) == IF meid = None THEN None ELSE meid

\* operator[] of the map: a missing key is inserted with nullopt
Touch(p, role) == IF p[role] = NoEntry THEN [p EXCEPT ![role] = None] ELSE p

Lookup(p, role) == Touch(p, role)[role]

\* ------------------------------------------------------------ manager
\* the role test inverted
ValidateConnectionOtherRole(role, eid, o, conns) ==
  IF ~HasValue(eid) THEN "OK"
  ELSE IF \E i \in 1..Len(conns) :
            o[conns[i]].role # role /\ o[conns[i]].eid = eid
       THEN "INVALID_ARGUMENT"
       ELSE "OK"

ValidateConnection(role, eid, o, conns) ==
  IF ~HasValue(eid) THEN "OK"
  ELSE IF \E i \in 1..Len(conns) :
            o[conns[i]].role = role /\ o[conns[i]].eid = eid
       THEN "INVALID_ARGUMENT"
       ELSE "OK"

RECURSIVE MaxOver(_, _, _, _)
MaxOver(o, conns, role, i) ==
  IF i > Len(conns) THEN None
  ELSE LET rest == MaxOver(o, conns, role, i + 1)
       IN IF o[conns[i]].role # role THEN rest
          ELSE OptMax(rest, o[conns[i]].eid)

MaxElectionId(o, conns, role) == MaxOver(o, conns, role, 1)

\* the stored id follows the current maximum
NewPastFollowsMax(old, max) == max

\* the value stored for the role after UpdateToPrimaryConnectionState
NewPast(old, max) == IF HasValue(max) /\ OptLess(old, max) THEN max ELSE old

\* old_primary_is_reconnecting is left out
PrimaryStateChangedByMax(old, max, eid) == max # old

\* the return value of UpdateToPrimaryConnectionState
PrimaryStateChanged(old, max, eid) == max # old \/ eid = max

PrimaryConnectionExists(o, conns, p, role) ==
  LET primary == Lookup(p, role)
  IN (\E i \in 1..Len(conns) :
         o[conns[i]].role = role /\ o[conns[i]].eid = primary)
     /\ HasValue(primary)

\* the connection's own election id is sent
ResponseOwnElection(o, p, c) == o[c].eid

ResponseElection(o, p, c) == Lookup(p, o[c].role)

ResponseStatus(o, conns, p, c) ==
  IF PrimaryConnectionExists(o, conns, p, o[c].role)
  THEN IF Lookup(p, o[c].role) = o[c].eid THEN "OK" ELSE "ALREADY_EXISTS"
  ELSE "NOT_FOUND"

\* the message SendArbitrationResponse writes to c
ArbitrationResponse(o, conns, p, dev, c) ==
  [to |-> c, kind |-> "arbitration",
   code |-> ResponseStatus(o, conns, p, c),
   eid |-> ResponseElection(o, p, c),
   role |-> o[c].role,
   dev |-> dev]

\* the role of the entries is not tested
RECURSIVE InformEveryoneFrom(_, _, _, _, _, _)
InformEveryoneFrom(o, conns, p, dev, role, i) ==
  IF i > Len(conns) THEN << >>
  ELSE <<ArbitrationResponse(o, conns, p, dev, conns[i])>>
       \o InformEveryoneFrom(o, conns, p, dev, role, i + 1)

RECURSIVE InformFrom(_, _, _, _, _, _)
InformFrom(o, conns, p, dev, role, i) ==
  IF i > Len(conns) THEN << >>
  ELSE (IF o[conns[i]].role = role
        THEN <<ArbitrationResponse(o, conns, p, dev, conns[i])>>
        ELSE << >>)
       \o InformFrom(o, conns, p, dev, role, i + 1)

InformConnectionsAboutPrimaryChange(o, conns, p, dev, role) ==
  InformFrom(o, conns, p, dev, role, 1)

\* line 86: the device id the manager holds once the update has been read
AdoptDeviceId(cur, dev) == dev

\* lines 129-141: the registry after an accepted update of c
Register(conns, c, wasInit) == Append(conns, c)

\* lines 167-176: the first occurrence of c is erased
RECURSIVE EraseFirst(_, _)
EraseFirst(conns, c) ==
  IF conns = << >> THEN << >>
  ELSE IF Head(conns) = c THEN Tail(conns)
       ELSE <<Head(conns)>> \o EraseFirst(Tail(conns), c)

\* the election id is compared with the root role's entry
AllowRequestRootRole(p, role, eid) ==
  IF ~HasValue(eid) THEN "PERMISSION_DENIED"
  ELSE IF p["none"] = NoEntry THEN "PERMISSION_DENIED"
  ELSE IF eid # p["none"] THEN "PERMISSION_DENIED"
  ELSE "OK"

\* the election id is not tested for a value
AllowRequestAnyElection(p, role, eid) ==
  IF p[role] = NoEntry THEN "PERMISSION_DENIED"
  ELSE IF eid # p[role] THEN "PERMISSION_DENIED"
  ELSE "OK"

AllowRequest(p, role, eid) ==
  IF ~HasValue(eid) THEN "PERMISSION_DENIED"
  ELSE IF p[role] = NoEntry THEN "PERMISSION_DENIED"
  ELSE IF eid # p[role] THEN "PERMISSION_DENIED"
  ELSE "OK"

\* the connection SendStreamMessageToPrimary writes to (0: none): the last
\* entry of connections_ with the role and the stored election id
PrimaryTarget(o, conns, p, role) ==
  LET primary == Lookup(p, role)
      hits == {i \in 1..Len(conns) :
                 o[conns[i]].role = role /\ o[conns[i]].eid = primary}
  IN IF ~HasValue(primary) \/ hits = {} THEN 0
     ELSE conns[CHOOSE i \in hits : \A j \in hits : j <= i]

Call(op, c, role, eid, status) ==
  [op |-> op, conn |-> c, role |-> role, eid |-> eid, status |-> status]

\* ---------------------------------------------------------------- Init
\* no unary RPC has been received yet
IdleRpc == [pc |-> "idle", auth |-> FALSE, action |-> "NONE", calls |-> << >>,
            status |-> "NONE", dev |-> None, updates |-> 0]

Init ==
  /\ obj = [c \in Conns |-> NoObj]
  /\ connections = << >>
  /\ past = [r \in Roles |-> NoEntry]
  /\ device_id = None
  /\ pc = [c \in Conns |-> "idle"]
  /\ rpc = IdleRpc
  /\ sent = << >>
  /\ last = Call("none", 0, "none", None, "NONE")
  /\ lock = FALSE
  /\ todo = [c \in Conns |-> << >>]

\* ------------------------------------------------------ stream handler
\* StreamChannel is entered: the SdnConnection is constructed
StreamOpen(c) ==
  /\ pc[c] = "idle"
  /\ obj' = [obj EXCEPT ![c] = FreshObj]
  /\ pc' = [pc EXCEPT ![c] = "read"]
  /\ sent' = << >>
  /\ last' = Call("open", c, "none", None, "NONE")
  /\ UNCHANGED <<connections, past, device_id, rpc>>
  /\ UNCHANGED <<lock, todo>>

\* the shortcut is never taken
NoChangeNever(o, c, role, eid) == FALSE

\* lines 113-115: the update repeats the connection's role and election id
NoChange(o, c, role, eid) ==
  o[c].init /\ o[c].role = role /\ o[c].eid = eid

\* SdnControllerManager::HandleArbitrationUpdate, for a connections_ of at
\* most cap entries
HandleArbitrationUpdateUpTo(cap, c, dev, mrole, meid) ==
  LET dev1 == AdoptDeviceId(device_id, dev)
      role == ParseRole(mrole)
      eid == ParseElection(meid)
      valid == ValidateConnection(role, eid, obj, connections)
      obj1 == [obj EXCEPT ![c].role = role, ![c].eid = eid, ![c].init = TRUE]
      conns1 == Register(connections, c, obj[c].init)
      old == Lookup(past, role)
      max == MaxElectionId(obj1, conns1, role)
      past1 == [Touch(past, role) EXCEPT ![role] = NewPast(old, max)]
  IN
  /\ device_id' = dev1
  /\ IF dev # dev1
     THEN /\ last' = Call("arbitration", c, role, eid, "FAILED_PRECONDITION")
          /\ pc' = [pc EXCEPT ![c] = "failed"]
          /\ sent' = << >>
          /\ UNCHANGED <<obj, connections, past>>
     ELSE IF NoChange(obj, c, role, eid)
     THEN /\ last' = Call("arbitration", c, role, eid, "OK")
          /\ sent' = <<ArbitrationResponse(obj, connections, past, dev1, c)>>
          /\ past' = Touch(past, role)
          /\ UNCHANGED <<obj, connections, pc>>
     ELSE IF valid # "OK"
     THEN /\ last' = Call("arbitration", c, role, eid, valid)
          /\ pc' = [pc EXCEPT ![c] = "failed"]
          /\ sent' = << >>
          /\ UNCHANGED <<obj, connections, past>>
     ELSE /\ Len(connections) < cap
          /\ last' = Call("arbitration", c, role, eid, "OK")
          /\ obj' = obj1
          /\ connections' = conns1
          /\ past' = past1
          /\ sent' = IF PrimaryStateChanged(old, max, eid)
                     THEN InformConnectionsAboutPrimaryChange(
                              obj1, conns1, past1, dev1, role)
                     ELSE <<ArbitrationResponse(obj1, conns1, past1, dev1, c)>>
          /\ UNCHANGED pc

HandleArbitrationUpdate(c, dev, mrole, meid) ==
  HandleArbitrationUpdateUpTo(MaxConnLen, c, dev, mrole, meid)

\* lines 143-158: the device-id checks of the stream loop.  node_id is
\* declared in the loop body and read before it is written, so its value is
\* indeterminate.
StreamDeviceCheck(dev, node_id) ==
  IF dev = 0 THEN "INVALID_ARGUMENT"
  ELSE IF node_id = 0 THEN "OK"
  ELSE IF node_id # dev THEN "INVALID_ARGUMENT"
  ELSE "OK"

\* StreamChannel reads an arbitration message that fails the device-id
\* checks: the handler returns, Disconnect is not run
StreamBadDevice(c) ==
  /\ pc[c] = "read"
  /\ (\E dev \in DeviceIds :
        \E node_id \in DeviceIds : StreamDeviceCheck(dev, node_id) # "OK") = TRUE
  /\ obj' = Destroy(obj, connections, c)
  /\ pc' = [pc EXCEPT ![c] = "idle"]
  /\ sent' = << >>
  /\ last' = Call("stream_return", c, "none", None, "INVALID_ARGUMENT")
  /\ UNCHANGED <<connections, past, device_id, rpc>>
  /\ UNCHANGED <<lock, todo>>

\* StreamChannel reads an arbitration message that passes them
StreamArbitration(c) ==
  /\ pc[c] = "read"
  /\ \E dev \in DeviceIds, mrole \in MsgRoles, meid \in OptElection :
       /\ (\E node_id \in DeviceIds : StreamDeviceCheck(dev, node_id) = "OK") = TRUE
       /\ HandleArbitrationUpdate(c, dev, mrole, meid)
  /\ UNCHANGED rpc
  /\ UNCHANGED <<lock, todo>>

\* the same over the longer connections_
StreamArbitrationLong(c) ==
  /\ pc[c] = "read"
  /\ \E dev \in DeviceIds, mrole \in MsgRoles, meid \in OptElection :
       /\ (\E node_id \in DeviceIds : StreamDeviceCheck(dev, node_id) = "OK") = TRUE
       /\ HandleArbitrationUpdateUpTo(MaxLongLen, c, dev, mrole, meid)
  /\ UNCHANGED rpc
  /\ UNCHANGED <<lock, todo>>

\* SdnControllerManager::Disconnect, then the handler returns and the
\* SdnConnection is destroyed
Disconnect(c) ==
  LET conns1 == IF obj[c].init THEN EraseFirst(connections, c) ELSE connections
      wasPrimary == obj[c].init /\ HasValue(obj[c].eid)
                    /\ obj[c].eid = Lookup(past, obj[c].role)
      past1 == IF obj[c].init /\ HasValue(obj[c].eid)
               THEN Touch(past, obj[c].role) ELSE past
  IN
  /\ connections' = conns1
  /\ past' = past1
  /\ sent' = IF wasPrimary
             THEN InformConnectionsAboutPrimaryChange(
                      obj, conns1, past1, device_id, obj[c].role)
             ELSE << >>
  /\ obj' = Destroy(obj, conns1, c)
  /\ pc' = [pc EXCEPT ![c] = "idle"]
  /\ last' = Call("disconnect", c, obj[c].role, obj[c].eid, "NONE")
  /\ UNCHANGED <<device_id, rpc>>

\* stream->Read returns false, or the arbitration update was rejected
StreamClose(c) ==
  /\ pc[c] \in {"read", "failed"}
  /\ Disconnect(c)
  /\ UNCHANGED <<lock, todo>>

\* a read through a pointer to a destroyed SdnConnection yields whatever the
\* freed memory holds by then
StaleMemory(c) ==
  /\ ~obj[c].live
  /\ c \in Range(connections)
  /\ \E r \in Roles, e \in OptElection :
       /\ <<r, e>> # <<obj[c].role, obj[c].eid>>
       /\ obj' = [obj EXCEPT ![c].role = r, ![c].eid = e]
  /\ sent' = << >>
  /\ last' = Call("none", 0, "none", None, "NONE")
  /\ UNCHANGED <<connections, past, device_id, pc, rpc>>
  /\ UNCHANGED <<lock, todo>>

\* SdnControllerManager::SendStreamMessageToPrimary: response is written to
\* the primary of the role, if one is found
SendStreamMessageToPrimary(role, response) ==
  LET target == PrimaryTarget(obj, connections, past, role)
  IN
  /\ past' = Touch(past, role)
  /\ sent' = IF target = 0 THEN << >>
             ELSE <<[to |-> target, kind |-> response.kind,
                     code |-> response.code,
                     eid |-> None, role |-> role, dev |-> None]>>
  /\ last' = Call("send_to_primary", target, role, None,
                  IF target = 0 THEN "FALSE" ELSE "TRUE")
  /\ UNCHANGED <<obj, connections, device_id>>

\* SwitchProviderBase::SendStreamMessageResponse: a packet-in of the provider
PacketIn(role) ==
  /\ SendStreamMessageToPrimary(role, [kind |-> "stream_message",
                                       code |-> "NONE"])
  /\ UNCHANGED <<pc, rpc>>
  /\ UNCHANGED <<lock, todo>>

\* the status given is replaced by UNIMPLEMENTED
GenerateUnimplementedResponse(c, code, role) ==
  [to |-> c, kind |-> "error", code |-> "UNIMPLEMENTED", eid |-> None,
   role |-> role, dev |-> None]

\* GenerateErrorResponse: the StreamMessageResponse.error written to c
GenerateErrorResponse(c, code, role) ==
  [to |-> c, kind |-> "error", code |-> code, eid |-> None, role |-> role,
   dev |-> None]

StreamKinds == {"packet", "digest_ack", "other"}

\* StreamChannel reads a packet-out, a digest ack or an "other" message:
\* the connection's own role and election id are checked, then either the
\* error is written to it or the provider is called
StreamMessage(c, kind) ==
  LET allowed == AllowRequest(past, obj[c].role, obj[c].eid)
  IN
  /\ pc[c] = "read"
  /\ last' = Call(kind, c, obj[c].role, obj[c].eid, allowed)
  /\ IF allowed # "OK"
     THEN /\ sent' = <<GenerateErrorResponse(c, "PERMISSION_DENIED",
                                             obj[c].role)>>
          /\ UNCHANGED pc
     ELSE /\ sent' = << >>
          /\ pc' = [pc EXCEPT ![c] = "provider"]
  /\ UNCHANGED <<obj, connections, past, device_id, rpc>>
  /\ UNCHANGED <<lock, todo>>

\* StreamChannel reads a request with no update set or with a variant the
\* switch does not list: default: break, then the next Read
StreamDefault(c) ==
  /\ pc[c] = "read"
  /\ sent' = << >>
  /\ last' = Call("default", c, obj[c].role, None, "NONE")
  /\ UNCHANGED <<obj, connections, past, device_id, pc, rpc>>
  /\ UNCHANGED <<lock, todo>>

\* switch_provider_->HandleStreamMessageRequest returns; a failure is sent
\* to the primary of the connection's role
StreamProvider(c, ok) ==
  /\ pc[c] = "provider"
  /\ pc' = [pc EXCEPT ![c] = "read"]
  /\ IF ok
     THEN /\ sent' = << >>
          /\ last' = Call("stream_provider", c, obj[c].role, None, "OK")
          /\ UNCHANGED <<obj, connections, past, device_id>>
     ELSE SendStreamMessageToPrimary(
              obj[c].role, [kind |-> "error", code |-> "PROVIDER_ERROR"])
  /\ UNCHANGED rpc
  /\ UNCHANGED <<lock, todo>>

\* ---------------------------------------------------------- unary RPCs
Actions == {"UNSPECIFIED", "VERIFY", "VERIFY_AND_SAVE", "VERIFY_AND_COMMIT",
            "COMMIT", "RECONCILE_AND_COMMIT", "OTHER"}

\* AllowRequest(const WriteRequest&) and
\* AllowRequest(const SetForwardingPipelineConfigRequest&): the role is
\* absent when the request's role is empty
AllowRpcRequest(p, mrole, meid) ==
  AllowRequest(p, IF mrole = "" THEN "none" ELSE mrole, ParseElection(meid))

\* the result of the authorisation check is not tested
WriteGateUnchecked(allowed, dev, nupdates) ==
  IF nupdates = 0 THEN "OK"
  ELSE IF dev = 0 THEN "INVALID_ARGUMENT"
  ELSE "call"

\* P4RtServer::Write up to the provider call: what the handler does next
\* ("call": it calls WriteForwardingEntries; otherwise the status it returns)
WriteGate(allowed, dev, nupdates) ==
  IF allowed # "OK" THEN allowed
  ELSE IF nupdates = 0 THEN "OK"
  ELSE IF dev = 0 THEN "INVALID_ARGUMENT"
  ELSE "call"

\* StatusOrToGrpcStatus: results.ok() gives OK whatever the per-update
\* statuses are; otherwise results.value() is taken of a failed StatusOr,
\* which throws BadStatusOrAccess (or aborts) before a status is returned
StatusOrToGrpcStatus(result) ==
  IF result \in {"all_ok", "some_failed"} THEN "OK" ELSE "BAD_STATUS_OR_ACCESS"

WriteBegin(mrole, meid, dev, nupdates) ==
  LET allowed == AllowRpcRequest(past, mrole, meid)
      gate == WriteGate(allowed, dev, nupdates)
  IN
  /\ rpc.pc = "idle"
  /\ rpc' = [pc |-> IF gate = "call" THEN "write" ELSE "idle",
             auth |-> (allowed = "OK"), action |-> "NONE", calls |-> << >>,
             status |-> IF gate = "call" THEN "PENDING" ELSE gate,
             dev |-> dev, updates |-> nupdates]
  /\ last' = Call("write", 0, IF mrole = "" THEN "none" ELSE mrole,
                  ParseElection(meid), allowed)
  /\ sent' = << >>
  /\ UNCHANGED <<obj, connections, past, device_id, pc>>
  /\ UNCHANGED <<lock, todo>>

\* switch_provider_->WriteForwardingEntries and the conversion of its result
WriteProvider(result) ==
  /\ rpc.pc = "write"
  /\ rpc' = [rpc EXCEPT !.pc = "idle",
                        !.calls = Append(@, "WriteForwardingEntries"),
                        !.status = StatusOrToGrpcStatus(result)]
  /\ last' = Call("provider", 0, "none", None, result)
  /\ sent' = << >>
  /\ UNCHANGED <<obj, connections, past, device_id, pc>>
  /\ UNCHANGED <<lock, todo>>

\* P4RtServer::SetForwardingPipelineConfig up to its first provider call:
\* the capability it calls first, or the status it returns
SetConfigGate(allowed, dev, action) ==
  IF dev = 0 THEN "INVALID_ARGUMENT"
  ELSE IF allowed # "OK" THEN allowed
  ELSE IF action = "UNSPECIFIED" THEN "UNKNOWN"
  ELSE IF action \in {"VERIFY", "VERIFY_AND_SAVE", "VERIFY_AND_COMMIT"}
       THEN "verify"
  ELSE IF action = "COMMIT" THEN "commit"
  ELSE IF action = "RECONCILE_AND_COMMIT" THEN "reconcile"
  ELSE "UNIMPLEMENTED"

ProviderSteps == {"verify", "save", "commit", "reconcile"}

SetConfigBegin(mrole, meid, dev, action) ==
  LET allowed == AllowRpcRequest(past, mrole, meid)
      gate == SetConfigGate(allowed, dev, action)
  IN
  /\ rpc.pc = "idle"
  /\ rpc' = [pc |-> IF gate \in ProviderSteps THEN gate ELSE "idle",
             auth |-> (dev # 0 /\ allowed = "OK"),
             action |-> IF dev # 0 /\ allowed = "OK" THEN action ELSE "NONE",
             calls |-> << >>,
             status |-> IF gate \in ProviderSteps THEN "PENDING" ELSE gate,
             dev |-> dev, updates |-> 0]
  /\ last' = Call("set_config", 0, IF mrole = "" THEN "none" ELSE mrole,
                  ParseElection(meid),
                  IF dev = 0 THEN "NOT_CHECKED" ELSE allowed)
  /\ sent' = << >>
  /\ UNCHANGED <<obj, connections, past, device_id, pc>>
  /\ UNCHANGED <<lock, todo>>

\* the result of verify is not tested
AfterProviderCallUnchecked(step, action, ok) ==
  IF step = "verify" /\ action = "VERIFY_AND_SAVE" THEN "save"
  ELSE IF step = "verify" /\ action = "VERIFY_AND_COMMIT" THEN "commit"
  ELSE "idle"

\* the step that follows a provider call of SetForwardingPipelineConfig
\* ("idle": the RPC returns the call's status)
AfterProviderCall(step, action, ok) ==
  IF step = "verify" /\ ok /\ action = "VERIFY_AND_SAVE" THEN "save"
  ELSE IF step = "verify" /\ ok /\ action = "VERIFY_AND_COMMIT" THEN "commit"
  ELSE "idle"

Capability(step) ==
  CASE step = "verify" -> "VerifyForwardingPipelineConfig"
    [] step = "save" -> "SaveForwardingPipelineConfig"
    [] step = "commit" -> "CommitForwardingPipelineConfig"
    [] step = "reconcile" -> "ReconcileAndCommitForwardingPipelineConfig"

\* one provider call of SetForwardingPipelineConfig; ok is its result
SetConfigProvider(ok) ==
  LET next == AfterProviderCall(rpc.pc, rpc.action, ok)
  IN
  /\ rpc.pc \in ProviderSteps
  /\ rpc' = [rpc EXCEPT !.pc = next,
                        !.calls = Append(@, Capability(rpc.pc)),
                        !.status = IF next # "idle" THEN "PENDING"
                                   ELSE IF ok THEN "OK" ELSE "PROVIDER_ERROR"]
  /\ last' = Call("provider", 0, "none", None,
                  IF ok THEN "OK" ELSE "PROVIDER_ERROR")
  /\ sent' = << >>
  /\ UNCHANGED <<obj, connections, past, device_id, pc>>
  /\ UNCHANGED <<lock, todo>>

\* ------------------------------------------- manager operations, by step
\* the lock is taken whether or not it is held
LockIgnored(l) == TRUE

\* absl::MutexLock l(&lock_): the caller proceeds when lock_ is free
LockFree(l) == ~l

\* the entries InformConnectionsAboutPrimaryChange visits, in order
Recipients(o, conns, role) == SelectSeq(conns, LAMBDA d : o[d].role = role)

\* the handler of c is inside a manager operation, lock_ held
InManager(c) == pc[c] \in {"inform", "leaving"}

\* HandleArbitrationUpdate from its first line to the call of
\* InformConnectionsAboutPrimaryChange or SendArbitrationResponse; a
\* rejected update returns, releasing lock_
UpdateLocked(c, dev, mrole, meid) ==
  LET dev1 == AdoptDeviceId(device_id, dev)
      role == ParseRole(mrole)
      eid == ParseElection(meid)
      valid == ValidateConnection(role, eid, obj, connections)
      obj1 == [obj EXCEPT ![c].role = role, ![c].eid = eid, ![c].init = TRUE]
      conns1 == Register(connections, c, obj[c].init)
      old == Lookup(past, role)
      max == MaxElectionId(obj1, conns1, role)
      past1 == [Touch(past, role) EXCEPT ![role] = NewPast(old, max)]
  IN
  /\ pc[c] = "read"
  /\ (\E node_id \in DeviceIds : StreamDeviceCheck(dev, node_id) = "OK") = TRUE
  /\ LockFree(lock)
  /\ device_id' = dev1
  /\ sent' = << >>
  /\ IF dev # dev1 \/ (~NoChange(obj, c, role, eid) /\ valid # "OK")
     THEN /\ last' = Call("arbitration", c, role, eid,
                          IF dev # dev1 THEN "FAILED_PRECONDITION" ELSE valid)
          /\ pc' = [pc EXCEPT ![c] = "failed"]
          /\ UNCHANGED <<obj, connections, past, lock, todo>>
     ELSE IF NoChange(obj, c, role, eid)
     THEN /\ last' = Call("arbitration", c, role, eid, "OK")
          /\ todo' = [todo EXCEPT ![c] = <<c>>]
          /\ pc' = [pc EXCEPT ![c] = "inform"]
          /\ lock' = TRUE
          /\ UNCHANGED <<obj, connections, past>>
     ELSE /\ Len(connections) < MaxConnLen
          /\ last' = Call("arbitration", c, role, eid, "OK")
          /\ obj' = obj1
          /\ connections' = conns1
          /\ past' = past1
          /\ todo' = [todo EXCEPT ![c] =
                        IF PrimaryStateChanged(old, max, eid)
                        THEN Recipients(obj1, conns1, role) ELSE <<c>>]
          /\ pc' = [pc EXCEPT ![c] = "inform"]
          /\ lock' = TRUE
  /\ UNCHANGED rpc

\* Disconnect from its first line to the call of
\* InformConnectionsAboutPrimaryChange
DisconnectLocked(c) ==
  LET conns1 == IF obj[c].init THEN EraseFirst(connections, c) ELSE connections
      wasPrimary == obj[c].init /\ HasValue(obj[c].eid)
                    /\ obj[c].eid = Lookup(past, obj[c].role)
      past1 == IF obj[c].init /\ HasValue(obj[c].eid)
               THEN Touch(past, obj[c].role) ELSE past
  IN
  /\ pc[c] \in {"read", "failed"}
  /\ LockFree(lock)
  /\ lock' = TRUE
  /\ connections' = conns1
  /\ past' = past1
  /\ todo' = [todo EXCEPT ![c] =
                IF wasPrimary THEN Recipients(obj, conns1, obj[c].role)
                ELSE << >>]
  /\ pc' = [pc EXCEPT ![c] = "leaving"]
  /\ sent' = << >>
  /\ last' = Call("disconnect", c, obj[c].role, obj[c].eid, "NONE")
  /\ UNCHANGED <<obj, device_id, rpc>>

\* one SendArbitrationResponse of the operation of c
InformStep(c) ==
  /\ InManager(c)
  /\ todo[c] # << >>
  /\ sent' = <<ArbitrationResponse(obj, connections, past, device_id,
                                   Head(todo[c]))>>
  /\ past' = Touch(past, obj[Head(todo[c])].role)
  /\ todo' = [todo EXCEPT ![c] = Tail(@)]
  /\ UNCHANGED <<obj, connections, device_id, pc, rpc, last, lock>>

\* the operation of c returns and lock_ is released; after Disconnect the
\* handler returns and the SdnConnection is destroyed
Unlock(c) ==
  /\ InManager(c)
  /\ todo[c] = << >>
  /\ lock' = FALSE
  /\ sent' = << >>
  /\ IF pc[c] = "leaving"
     THEN /\ obj' = Destroy(obj, connections, c)
          /\ pc' = [pc EXCEPT ![c] = "idle"]
     ELSE /\ pc' = [pc EXCEPT ![c] = "read"]
          /\ UNCHANGED obj
  /\ UNCHANGED <<connections, past, device_id, rpc, last, todo>>

\* SendStreamMessageToPrimary under lock_
PacketInLocked(role) ==
  /\ LockFree(lock)
  /\ PacketIn(role)

\* AllowRequest returns with lock_ still held
HeldAfterReturn(l) == TRUE

\* lock_ once AllowRequest has returned: the MutexLock on its stack is gone
ReleasedOnReturn(l) == FALSE

\* StreamChannel reads a packet-out, a digest ack or an "other" message and
\* AllowRequest runs under lock_; then the handler starts to write the error
\* to its own stream, or calls the provider
CheckLocked(c) ==
  LET allowed == AllowRequest(past, obj[c].role, obj[c].eid)
  IN
  /\ pc[c] = "read"
  /\ LockFree(lock)
  /\ lock' = ReleasedOnReturn(lock)
  /\ last' = Call("packet", c, obj[c].role, obj[c].eid, allowed)
  /\ pc' = [pc EXCEPT ![c] = IF allowed = "OK" THEN "provider" ELSE "erroring"]
  /\ sent' = << >>
  /\ UNCHANGED <<obj, connections, past, device_id, rpc, todo>>

\* sdn_connection->SendStreamMessageResponse of the handler returns: the
\* PERMISSION_DENIED error is on the stream of c
ErrorWritten(c) ==
  /\ pc[c] = "erroring"
  /\ pc' = [pc EXCEPT ![c] = "read"]
  /\ sent' = <<GenerateErrorResponse(c, "PERMISSION_DENIED", obj[c].role)>>
  /\ UNCHANGED <<obj, connections, past, device_id, rpc, last, lock, todo>>

\* the provider, inside HandleStreamMessageRequest for c, calls
\* SendStreamMessageToPrimary
ProviderCallback(c, role) ==
  /\ pc[c] = "provider"
  /\ LockFree(lock)
  /\ SendStreamMessageToPrimary(role, [kind |-> "stream_message",
                                       code |-> "NONE"])
  /\ UNCHANGED <<pc, rpc, lock, todo>>

\* HandleStreamMessageRequest returns; a failure goes to the primary through
\* SendStreamMessageToPrimary, under lock_
ProviderReturns(c, ok) ==
  /\ pc[c] = "provider"
  /\ pc' = [pc EXCEPT ![c] = "read"]
  /\ IF ok
     THEN /\ sent' = << >>
          /\ last' = Call("stream_provider", c, obj[c].role, None, "OK")
          /\ UNCHANGED <<obj, connections, past, device_id>>
     ELSE /\ LockFree(lock)
          /\ SendStreamMessageToPrimary(
                 obj[c].role, [kind |-> "error", code |-> "PROVIDER_ERROR"])
  /\ UNCHANGED <<rpc, lock, todo>>

\* ------------------------------------------------------- specifications
\* the controller manager under streams, packet-ins and stale pointers
Next ==
  \/ \E c \in Conns : StreamOpen(c)
  \/ \E c \in Conns : StreamArbitration(c)
  \/ \E c \in Conns : StreamBadDevice(c)
  \/ \E c \in Conns : StreamClose(c)
  \/ \E c \in Conns : StaleMemory(c)
  \/ \E r \in Roles : PacketIn(r)
  \/ \E c \in Conns, kind \in StreamKinds : StreamMessage(c, kind)
  \/ \E c \in Conns, ok \in BOOLEAN : StreamProvider(c, ok)
  \/ \E c \in Conns : StreamDefault(c)

Spec == Init /\ [][Next]_vars

\* streams that carry arbitration updates only
NextArb ==
  \/ \E c \in Conns : StreamOpen(c)
  \/ \E c \in Conns : StreamArbitrationLong(c)
  \/ \E c \in Conns : StreamBadDevice(c)
  \/ \E c \in Conns : StaleMemory(c)
  \/ \E c \in Conns : StreamClose(c)

SpecArb == Init /\ [][NextArb]_vars

\* the unary RPCs beside the streams
RpcRoles == {""} \cup RoleNames
RpcDeviceIds == {0, 1}
RpcConns == {1}

NextRpc ==
  \/ \E c \in RpcConns : StreamOpen(c)
  \/ \E c \in RpcConns : StreamArbitration(c)
  \/ \E c \in RpcConns : StreamClose(c)
  \/ \E mrole \in RpcRoles, meid \in OptElection, dev \in RpcDeviceIds,
        n \in 0..1 : WriteBegin(mrole, meid, dev, n)
  \/ \E result \in {"all_ok", "some_failed", "call_failed"} :
        WriteProvider(result)
  \/ \E mrole \in RpcRoles, meid \in OptElection, dev \in RpcDeviceIds,
        action \in Actions : SetConfigBegin(mrole, meid, dev, action)
  \/ \E ok \in BOOLEAN : SetConfigProvider(ok)

SpecRpc == Init /\ [][NextRpc]_vars

\* the manager operations step by step, under concurrent stream handlers
NextLock ==
  \/ \E c \in Conns : StreamOpen(c)
  \/ \E c \in Conns : StreamBadDevice(c)
  \/ \E c \in Conns : StaleMemory(c)
  \/ \E c \in Conns, dev \in DeviceIds, mrole \in MsgRoles,
        meid \in OptElection : UpdateLocked(c, dev, mrole, meid)
  \/ \E c \in Conns : DisconnectLocked(c)
  \/ \E c \in Conns : InformStep(c)
  \/ \E c \in Conns : Unlock(c)
  \/ \E r \in Roles : PacketInLocked(r)

SpecLock == Init /\ [][NextLock]_vars

\* the stream handlers step by step: manager operations, the handler's own
\* writes and the provider calls
NextWrite ==
  \/ \E c \in Conns : StreamOpen(c)
  \/ \E c \in Conns, dev \in DeviceIds, mrole \in MsgRoles,
        meid \in OptElection : UpdateLocked(c, dev, mrole, meid)
  \/ \E c \in Conns : DisconnectLocked(c)
  \/ \E c \in Conns : InformStep(c)
  \/ \E c \in Conns : Unlock(c)
  \/ \E c \in Conns : CheckLocked(c)
  \/ \E c \in Conns : ErrorWritten(c)
  \/ \E c \in Conns, r \in Roles : ProviderCallback(c, r)
  \/ \E c \in Conns, ok \in BOOLEAN : ProviderReturns(c, ok)

SpecWrite == Init /\ [][NextWrite]_vars

\* a thread inside a manager operation keeps running: its stream writes
\* return and it leaves the operation
FairSpecWrite ==
  SpecWrite /\ \A c \in Conns : WF_vars(InformStep(c)) /\ WF_vars(Unlock(c))

\* ------------------------------------------------------------- claims
\* the registered connections: the elements of connections_ whose stream
\* handler is still running
Registered == {c \in Range(connections) : obj[c].live}

\* the stored election id of a role, absent when the role has no entry
PastValue(p, r) == IF p[r] = NoEntry THEN None ELSE p[r]

\* c is the current primary of its role
CurrentPrimary(c) ==
  /\ c \in Registered
  /\ HasValue(obj[c].eid)
  /\ obj[c].eid = PastValue(past, obj[c].role)

\* C1: for each role at most one registered connection has a defined
\* election id equal to the role's high-water mark, and no two distinct
\* registered connections share a role and a defined election id.
C1_UniqueElectionId ==
  /\ \A c \in Registered, d \in Registered :
       (c # d /\ obj[c].role = obj[d].role /\ HasValue(obj[c].eid))
         => obj[c].eid # obj[d].eid
  /\ \A r \in Roles :
       Cardinality({c \in Registered : obj[c].role = r /\ CurrentPrimary(c)})
         <= 1

\* an update was rejected because the primary of the role, another registered
\* connection, holds the election id
C1_Witness ==
  /\ last.op = "arbitration" /\ last.status = "INVALID_ARGUMENT"
  /\ last.conn \in Registered
  /\ \E c \in Registered :
       /\ c # last.conn /\ CurrentPrimary(c)
       /\ obj[c].role = last.role /\ obj[c].eid = last.eid

\* C2: an authorisation check returns OK iff the election id is defined,
\* the role has an entry and the election id equals the entry; otherwise it
\* returns PERMISSION_DENIED.  The check is per role.
C2_AllowRequest ==
  (last.op \in {"write", "set_config"} /\ last.status # "NOT_CHECKED")
    => IF HasValue(last.eid) /\ past[last.role] # NoEntry
          /\ last.eid = past[last.role]
       THEN last.status = "OK"
       ELSE last.status = "PERMISSION_DENIED"

\* a Write of the root role is approved with an election id that the role
\* "x", whose high-water mark is another one, would be denied
C2_Witness ==
  /\ last.op = "write" /\ last.status = "OK" /\ last.role = "none"
  /\ HasValue(past["x"]) /\ past["x"] # NoEntry /\ past["x"] # last.eid

\* C3: the stored high-water mark of a role never decreases and is never
\* reset to absent once it is defined.
C3_HighWaterMonotonic ==
  [][\A r \in Roles :
       /\ ~OptLess(PastValue(past', r), PastValue(past, r))
       /\ (past[r] # NoEntry => past'[r] # NoEntry)]_vars

\* a primary has lowered or dropped its own election id
C3_Witness ==
  /\ last.op = "arbitration" /\ last.status = "OK"
  /\ OptLess(last.eid, PastValue(past, last.role))
  /\ \A c \in Registered : obj[c].role = last.role => ~CurrentPrimary(c)

\* C4: a connection is an element of connections iff it has been
\* initialized and Disconnect has not been run for it; after Disconnect(c)
\* has returned c appears nowhere in connections.
C4_RegisteredIffInitialized ==
  /\ \A c \in Conns : (c \in Range(connections)) <=> (obj[c].live /\ obj[c].init)
  /\ (last.op = "disconnect") => (last.conn \notin Range(connections))

\* C5: a Write or SetForwardingPipelineConfig is approved only if some
\* registered connection is the current primary of the request's role and
\* holds the request's election id.
C5_ApprovedOnlyWithPrimary ==
  (last.op \in {"write", "set_config"} /\ last.status = "OK")
    => \E c \in Registered :
         obj[c].role = last.role /\ obj[c].eid = last.eid /\ CurrentPrimary(c)

\* C6: the provider's mutating capabilities are invoked only in an RPC whose
\* authorisation check returned OK; a denied RPC makes no provider call.
C6_ProviderOnlyWhenAuthorised ==
  (rpc.pc # "idle" \/ rpc.calls # << >>) => rpc.auth

\* an authorised SetForwardingPipelineConfig has made two provider calls
C6_Witness == rpc.auth /\ Len(rpc.calls) = 2

\* C7: an arbitration response to c carries OK iff c is the current primary
\* of its role, ALREADY_EXISTS iff a current primary exists and is another
\* connection, NOT_FOUND iff no registered connection is the current primary
\* of c's role.
C7_ResponseStatus ==
  \A i \in 1..Len(sent) :
    sent[i].kind = "arbitration" =>
      LET c == sent[i].to
          exists == \E d \in Registered :
                      obj[d].role = obj[c].role /\ CurrentPrimary(d)
      IN /\ (sent[i].code = "OK") <=> CurrentPrimary(c)
         /\ (sent[i].code = "ALREADY_EXISTS") <=> (exists /\ ~CurrentPrimary(c))
         /\ (sent[i].code = "NOT_FOUND") <=> ~exists

\* C8: an arbitration response to c carries the high-water mark of c's
\* role as its election id (absent exactly when the role has none), c's
\* role, and the manager's device id.
C8_ResponseFields ==
  \A i \in 1..Len(sent) :
    sent[i].kind = "arbitration" =>
      /\ sent[i].eid = PastValue(past, obj[sent[i].to].role)
      /\ sent[i].role = obj[sent[i].to].role
      /\ sent[i].dev = device_id

\* a backup is sent the high-water mark of its role, which is not its own id
C8_Witness ==
  \E i \in 1..Len(sent) :
    /\ sent[i].kind = "arbitration"
    /\ HasValue(sent[i].eid) /\ HasValue(obj[sent[i].to].eid)
    /\ sent[i].eid # obj[sent[i].to].eid
    /\ sent[i].role = "x"

\* C9: an update of c with role r and a defined election id e is rejected
\* with INVALID_ARGUMENT exactly when another registered connection has
\* role r and election id e.
C9_RejectedIffHeld ==
  (last.op = "arbitration" /\ HasValue(last.eid))
    => ((last.status = "INVALID_ARGUMENT")
          <=> \E d \in Registered :
                d # last.conn /\ obj[d].role = last.role
                /\ obj[d].eid = last.eid)

\* C10: the manager's device id is fixed by the first successful
\* arbitration and never changes afterwards.
C10_DeviceIdFixed == [][HasValue(device_id) => device_id' = device_id]_vars

\* the arbitration responses written to c in one step
ResponsesTo(msgs, c) ==
  {i \in 1..Len(msgs) : msgs[i].kind = "arbitration" /\ msgs[i].to = c}

\* C11: the current primary of role r with election id e disconnects and
\* the next manager operation is an arbitration with (r, e) on a new stream:
\* the update is accepted, that connection is sent OK, the high-water mark of
\* r is still e and every registered connection of role r is sent an
\* arbitration response.
C11_ReconnectRestoresPrimary ==
  [][(/\ last.op = "disconnect" /\ HasValue(last.eid)
      /\ last.eid = PastValue(past, last.role)
      /\ last'.op = "arbitration"
      /\ ~obj[last'.conn].init
      /\ last'.role = last.role /\ last'.eid = last.eid)
     => (/\ last'.status = "OK"
         /\ PastValue(past', last.role) = last.eid
         /\ \E i \in ResponsesTo(sent', last'.conn) : sent'[i].code = "OK"
         /\ \A d \in Registered' :
              obj'[d].role = last.role => ResponsesTo(sent', d) # {})]_vars

\* C12: an accepted arbitration update that gives a connection an election
\* id strictly greater than its role's high-water mark (or the role has
\* none) makes that id the high-water mark; in the same operation the
\* updating connection is sent OK and every other registered connection of
\* the role is sent ALREADY_EXISTS carrying the new id.
C12_HigherIdBecomesPrimary ==
  [][(/\ last'.op = "arbitration" /\ last'.status = "OK"
      /\ HasValue(last'.eid)
      /\ OptLess(PastValue(past, last'.role), last'.eid))
     => (/\ PastValue(past', last'.role) = last'.eid
         /\ ResponsesTo(sent', last'.conn) # {}
         /\ \A i \in ResponsesTo(sent', last'.conn) : sent'[i].code = "OK"
         /\ \A d \in Registered' \ {last'.conn} :
              obj'[d].role = last'.role
                => /\ ResponsesTo(sent', d) # {}
                   /\ \A i \in ResponsesTo(sent', d) :
                        /\ sent'[i].code = "ALREADY_EXISTS"
                        /\ sent'[i].eid = last'.eid)]_vars

\* no registered connection is the current primary of role r
NoCurrentPrimary(r) ==
  \A d \in Registered : obj[d].role = r => ~CurrentPrimary(d)

\* C13: the current primary of role r disconnects and the next manager
\* operation is an accepted arbitration for r with a defined election id
\* lower than the high-water mark H: H is unchanged, every registered
\* connection of role r is sent NOT_FOUND carrying H, a Write with the
\* lower id is denied, role r has no current primary and a packet-in for r
\* would not be delivered.
C13_LowerIdNoPrimary ==
  [][(/\ last.op = "disconnect" /\ HasValue(last.eid)
      /\ last.eid = PastValue(past, last.role)
      /\ last'.op = "arbitration" /\ last'.status = "OK"
      /\ last'.role = last.role
      /\ HasValue(last'.eid) /\ last'.eid < last.eid)
     => (/\ PastValue(past', last.role) = last.eid
         /\ AllowRequest(past', last'.role, last'.eid) = "PERMISSION_DENIED"
         /\ NoCurrentPrimary(last.role)'
         /\ PrimaryTarget(obj', connections', past', last.role) = 0
         /\ \A d \in Registered' :
              obj'[d].role = last.role
                => /\ ResponsesTo(sent', d) # {}
                   /\ \A i \in ResponsesTo(sent', d) :
                        /\ sent'[i].code = "NOT_FOUND"
                        /\ sent'[i].eid = last.eid)]_vars

\* C14: Disconnect(c) of an initialized connection removes c from
\* connections and sends an arbitration response to every remaining
\* registered connection of c's role iff c was the current primary; those
\* responses carry NOT_FOUND and the unchanged high-water mark.  When c was
\* a backup nothing is sent, and Disconnect of a never-initialized
\* connection changes nothing and sends nothing.
C14_DisconnectBroadcast ==
  [][last'.op = "disconnect" =>
       LET c == last'.conn
           r == obj[c].role
           wasPrimary == HasValue(obj[c].eid)
                         /\ obj[c].eid = PastValue(past, r)
       IN IF ~obj[c].init
          THEN sent' = << >> /\ connections' = connections /\ past' = past
          ELSE /\ c \notin Range(connections')
               /\ PastValue(past', r) = PastValue(past, r)
               /\ IF wasPrimary
                  THEN /\ \A d \in Registered' :
                            obj'[d].role = r => ResponsesTo(sent', d) # {}
                       /\ \A i \in 1..Len(sent') :
                            /\ sent'[i].kind = "arbitration"
                            /\ sent'[i].to \in Registered'
                            /\ obj'[sent'[i].to].role = r
                            /\ sent'[i].code = "NOT_FOUND"
                            /\ sent'[i].eid = PastValue(past, r)
                  ELSE sent' = << >>]_vars

\* C15: however a StreamChannel handler terminates, once it has returned
\* its connection is not in connections (Disconnect has been run for it),
\* so it is never selected as primary and never written to.
C15_HandlerReturnDisconnects ==
  [][\A c \in Conns :
       (pc[c] # "idle" /\ pc'[c] = "idle")
         => /\ c \notin Range(connections')
            /\ PrimaryTarget(obj', connections', past', obj[c].role) # c]_vars

\* C16: an arbitration message that repeats the role and election id of an
\* initialized connection returns OK, writes exactly one arbitration
\* response, to that connection, and leaves connections, the high-water
\* marks and the connections' fields unchanged (so repeating it changes
\* nothing either).
C16_ResendIsNoOp ==
  [][(/\ last'.op = "arbitration"
      /\ obj[last'.conn].init
      /\ obj[last'.conn].role = last'.role
      /\ obj[last'.conn].eid = last'.eid)
     => (/\ last'.status = "OK"
         /\ Len(sent') = 1
         /\ sent'[1].kind = "arbitration" /\ sent'[1].to = last'.conn
         /\ connections' = connections
         /\ past' = past
         /\ obj' = obj)]_vars

\* the primary of role "x", registered before a backup of the role, has
\* re-sent its arbitration message and got the one response
C16_Witness ==
  /\ last.op = "arbitration" /\ last.status = "OK"
  /\ Len(connections) = 2 /\ connections[1] = last.conn
  /\ connections[2] # last.conn /\ connections[2] \in Registered
  /\ last.conn \in Registered /\ CurrentPrimary(last.conn)
  /\ obj[connections[2]].role = last.role /\ last.role = "x"
  /\ Len(sent) = 1 /\ sent[1].to = last.conn /\ sent[1].code = "OK"

\* C17: a connection whose election id is absent is never sent an
\* arbitration response with status OK, is never the target of
\* SendStreamMessageToPrimary, never has a stream message forwarded to the
\* provider, and an authorisation check with an absent election id returns
\* PERMISSION_DENIED whatever the role's entry is.
C17_AbsentElectionNeverPrimary ==
  /\ \A i \in 1..Len(sent) :
       (sent[i].kind = "arbitration" /\ sent[i].code = "OK")
         => HasValue(obj[sent[i].to].eid)
  /\ last.op = "send_to_primary"
       => \A i \in 1..Len(sent) : HasValue(obj[sent[i].to].eid)
  /\ \A c \in Conns : pc[c] = "provider" => HasValue(obj[c].eid)
  /\ (last.op \in StreamKinds /\ ~HasValue(last.eid))
       => last.status = "PERMISSION_DENIED"
  /\ \A mrole \in RpcRoles :
       AllowRpcRequest(past, mrole, None) = "PERMISSION_DENIED"

\* a registered connection without an election id, in a role whose stored
\* election id is absent, has sent a stream message and has been denied
C17_Witness ==
  /\ last.op \in StreamKinds /\ last.status = "PERMISSION_DENIED"
  /\ last.conn \in Registered /\ obj[last.conn].init
  /\ ~HasValue(last.eid) /\ past[last.role] = None

\* C18: SendStreamMessageToPrimary(role, response) writes the response to
\* exactly one connection, the registered connection that is the current
\* primary of the role, and returns true; if there is none it writes
\* nothing and returns false.  It changes neither connections nor any
\* defined high-water mark.
C18_SendToPrimary ==
  [][last'.op = "send_to_primary" =>
       LET primaries == {c \in Registered :
                           obj[c].role = last'.role /\ CurrentPrimary(c)}
       IN /\ IF primaries # {}
             THEN /\ last'.status = "TRUE"
                  /\ Len(sent') = 1 /\ sent'[1].to \in primaries
             ELSE last'.status = "FALSE" /\ sent' = << >>
          /\ connections' = connections
          /\ \A r \in Roles :
               HasValue(PastValue(past, r)) => past'[r] = past[r]]_vars

\* C19: a packet-out, digest ack or "other" message read on a connection
\* that is not the current primary of its role (or has never arbitrated) has
\* exactly one error response with PERMISSION_DENIED written to that
\* connection and to no other; the provider is not invoked and the stream
\* stays open.
C19_NonPrimaryDenied ==
  (last.op \in StreamKinds /\ ~CurrentPrimary(last.conn))
    => /\ last.status = "PERMISSION_DENIED"
       /\ Len(sent) = 1
       /\ sent[1].to = last.conn /\ sent[1].kind = "error"
       /\ sent[1].code = "PERMISSION_DENIED"
       /\ pc[last.conn] = "read"

\* a backup has sent a stream message while another connection is the
\* primary of its role
C19_Witness ==
  /\ last.op \in StreamKinds /\ last.conn \in Registered
  /\ HasValue(last.eid)
  /\ \E d \in Registered \ {last.conn} :
       obj[d].role = last.role /\ CurrentPrimary(d)
  /\ Len(sent) = 1 /\ sent[1].code = "PERMISSION_DENIED"

\* C20: when the provider fails a stream message forwarded from connection
\* c, one error response with the provider's status is written to the
\* connection that is then the current primary of c's role and to no other;
\* if the role has no current primary then, nothing is written; the stream
\* of c stays open.
C20_ProviderFailureToPrimary ==
  [][\A c \in Conns :
       (pc[c] = "provider" /\ pc'[c] # "provider"
        /\ last'.op = "send_to_primary")
         => LET primaries == {d \in Registered :
                                obj[d].role = obj[c].role /\ CurrentPrimary(d)}
            IN /\ pc'[c] = "read"
               /\ last'.role = obj[c].role
               /\ IF primaries # {}
                  THEN /\ Len(sent') = 1 /\ sent'[1].to \in primaries
                       /\ sent'[1].kind = "error"
                       /\ sent'[1].code = "PROVIDER_ERROR"
                  ELSE sent' = << >>]_vars

\* C21: an arbitration update accepted with role r, and a disconnect of a
\* connection whose role is r, leave the entry of every other role q as it
\* was and send no arbitration response to a connection whose role is q, so
\* the authorisation result for any (q, election id) is the same before and
\* after.
C21_RoleIsolation ==
  [][((last'.op = "arbitration" /\ last'.status = "OK")
      \/ last'.op = "disconnect")
     => \A q \in Roles \ {last'.role} :
          /\ past'[q] = past[q]
          /\ \A i \in 1..Len(sent') :
               sent'[i].role # q /\ obj'[sent'[i].to].role # q
          /\ \A e \in OptElection :
               AllowRequest(past', q, e) = AllowRequest(past, q, e)]_vars

\* role "x" has got a new primary, with a broadcast, while a registered
\* connection is the primary of the root role with another election id
C21_Witness ==
  /\ last.op = "arbitration" /\ last.status = "OK" /\ last.role = "x"
  /\ CurrentPrimary(last.conn) /\ sent # << >>
  /\ \E d \in Registered :
       /\ obj[d].role = "none" /\ CurrentPrimary(d)
       /\ obj[d].eid # last.eid

\* C22: manager operations are atomic with respect to one another: at most
\* one handler is inside a manager operation, and from an operation's
\* registry change to the last response of its broadcast no step of another
\* thread changes connections, the high-water marks or the device id, or
\* writes to a stream.
C22_ManagerOperationsAtomic ==
  [][/\ Cardinality({c \in Conns : InManager(c)'}) <= 1
     /\ (\E c \in Conns : InManager(c)') => lock'
     /\ \A c \in Conns :
          (InManager(c) /\ pc'[c] = pc[c] /\ todo'[c] = todo[c])
            => /\ connections' = connections
               /\ past' = past
               /\ device_id' = device_id
               /\ sent' = << >>]_vars

\* a broadcast has written its first response and has another to write
\* while the handler of another stream is ready to call the manager
C22_Witness ==
  \E c \in Conns, d \in Conns :
    /\ c # d /\ pc[c] = "inform" /\ todo[c] # << >> /\ sent # << >>
    /\ pc[d] = "read" /\ obj[d].init

\* C23: an authorised Write with updates returns OK iff the provider's
\* WriteForwardingEntries succeeded and every per-update status is OK; if an
\* update failed or the call itself failed the RPC returns a non-OK status.
C23_WriteStatusAggregates ==
  [][(rpc.pc = "write" /\ rpc'.pc = "idle")
     => /\ (rpc'.status = "OK") <=> (last'.status = "all_ok")
        /\ last'.status # "all_ok"
             => rpc'.status \notin {"OK", "BAD_STATUS_OR_ACCESS"}]_vars

\* C24: an authorised Write whose device_id is 0 is rejected with
\* INVALID_ARGUMENT and the provider is not invoked, whether or not its
\* update list is empty.
C24_WriteZeroDevice ==
  (last.op = "write" /\ last.status = "OK" /\ rpc.dev = 0)
    => (rpc.status = "INVALID_ARGUMENT" /\ rpc.pc = "idle"
        /\ rpc.calls = << >>)

\* the provider calls an action asks for, in order
ConfigPlan(action) ==
  CASE action = "VERIFY" -> <<"verify">>
    [] action = "VERIFY_AND_SAVE" -> <<"verify", "save">>
    [] action = "VERIFY_AND_COMMIT" -> <<"verify", "commit">>
    [] action = "COMMIT" -> <<"commit">>
    [] action = "RECONCILE_AND_COMMIT" -> <<"reconcile">>
    [] OTHER -> << >>

\* C25: for an authorised SetForwardingPipelineConfig the provider calls
\* follow the action's plan in order; UNSPECIFIED makes no call and returns
\* UNKNOWN, any other unlisted action makes no call and returns
\* UNIMPLEMENTED; the RPC returns the status of the last call made, and a
\* failed call ends the RPC, so the second step is never called after a
\* failed verify.
C25_ConfigCallSequence ==
  [][rpc'.action # "NONE" =>
       LET plan == ConfigPlan(rpc'.action)
           n == Len(rpc'.calls)
       IN /\ n <= Len(plan)
          /\ \A i \in 1..n : rpc'.calls[i] = Capability(plan[i])
          /\ rpc'.pc # "idle" => (n < Len(plan) /\ rpc'.pc = plan[n + 1])
          /\ (rpc'.pc = "idle" /\ n = 0)
               => rpc'.status = IF rpc'.action = "UNSPECIFIED"
                                THEN "UNKNOWN" ELSE "UNIMPLEMENTED"
          /\ (rpc'.pc = "idle" /\ n > 0)
               => /\ rpc'.status \in {"OK", "PROVIDER_ERROR"}
                  /\ rpc'.status = "OK" => n = Len(plan)
          /\ (rpc.pc \in ProviderSteps /\ n = Len(rpc.calls) + 1)
               => /\ last'.status = "PROVIDER_ERROR"
                       => (rpc'.pc = "idle"
                           /\ rpc'.status = "PROVIDER_ERROR")
                  /\ rpc'.pc = "idle" => rpc'.status = last'.status]_vars

\* VERIFY_AND_COMMIT has ended with the failed verify as its only call
C25_Witness ==
  /\ rpc.action = "VERIFY_AND_COMMIT" /\ rpc.pc = "idle"
  /\ rpc.calls = <<"VerifyForwardingPipelineConfig">>
  /\ rpc.status = "PROVIDER_ERROR"

\* C26: a stream request of an unsupported variant is answered with exactly
\* one error response of code UNIMPLEMENTED written to the sender; the
\* manager state is unchanged and the stream stays open.
C26_UnsupportedVariantAnswered ==
  [][last'.op = "default"
       => /\ Len(sent') = 1
          /\ sent'[1].to = last'.conn
          /\ sent'[1].kind = "error"
          /\ sent'[1].code = "UNIMPLEMENTED"
          /\ UNCHANGED <<obj, connections, past, device_id>>
          /\ pc'[last'.conn] = "read"]_vars

\* the last arbitration response to c among msgs carries the status and the
\* election id of resp
LastResponseIs(msgs, c, resp) ==
  /\ ResponsesTo(msgs, c) # {}
  /\ LET i == CHOOSE j \in ResponsesTo(msgs, c) :
                 \A k \in ResponsesTo(msgs, c) : k <= j
     IN msgs[i].code = resp.code /\ msgs[i].eid = resp.eid

\* C27: between manager operations the most recent arbitration response
\* written to each registered connection carries the status and the
\* high-water mark a fresh response would carry: an arbitration or a
\* disconnect after which the fresh response of a registered connection
\* differs from the one before, or which registers the connection, writes
\* that fresh response to it. Stated for registries whose entries are all
\* live connections.
C27_ResponsesStayCurrent ==
  [][(/\ last'.op \in {"arbitration", "disconnect"}
      /\ \A c \in Range(connections) : obj[c].live
      /\ \A c \in Range(connections') : obj'[c].live)
     => \A c \in Registered' :
          LET now == ArbitrationResponse(obj', connections', past',
                                         device_id', c)
              before == ArbitrationResponse(obj, connections, past,
                                            device_id, c)
          IN \/ (c \in Registered /\ now.code = before.code
                                   /\ now.eid = before.eid)
             \/ LastResponseIs(sent', c, now)]_vars

\* C28: an accepted arbitration update inserts the connection into
\* connections only when the connection was not yet initialized; afterwards
\* every connection appears at most once in connections and is written at
\* most one arbitration response by the operation.
C28_InsertedOnce ==
  [][(last'.op = "arbitration" /\ last'.status = "OK")
     => LET c == last'.conn
        IN /\ connections' = IF obj[c].init THEN connections
                                            ELSE Append(connections, c)
           /\ \A i, j \in 1..Len(connections') :
                connections'[i] = connections'[j] => i = j
           /\ \A d \in Conns : Cardinality(ResponsesTo(sent', d)) <= 1]_vars

\* the highest defined election id among the live connections of role r that
\* conns holds
MaxRegisteredId(o, conns, r) ==
  LET ids == {o[d].eid : d \in {k \in Range(conns) :
                                 o[k].live /\ o[k].role = r
                                 /\ HasValue(o[k].eid)}}
  IN IF ids = {} THEN None ELSE CHOOSE m \in ids : \A k \in ids : k <= m

C30_DemotionAccepted ==
  [][(/\ last'.op = "arbitration" /\ last'.eid = None
      /\ obj[last'.conn].init /\ CurrentPrimary(last'.conn)
      /\ last'.role = obj[last'.conn].role)
     => LET c == last'.conn
            r == last'.role
        IN /\ last'.status = "OK" /\ pc'[c] = "read"
           /\ c \in Registered'
           /\ obj'[c].role = r /\ obj'[c].eid = None
           /\ PastValue(past', r) = PastValue(past, r)
           /\ \A d \in Registered' :
                obj'[d].role = r => ResponsesTo(sent', d) # {}
           /\ \A i \in 1..Len(sent') :
                sent'[i].kind = "arbitration" /\ sent'[i].code = "NOT_FOUND"
           /\ AllowRequest(past', obj'[c].role, obj'[c].eid) # "OK"]_vars

\* C31: a rejected arbitration update has modified nothing and sent nothing:
\* connections, the high-water marks and the device id are as before the
\* call, and so are the connection's role, election id and initialized flag.
C31_RejectedUpdateChangesNothing ==
  [][(last'.op = "arbitration" /\ last'.status # "OK")
     => /\ sent' = << >>
        /\ connections' = connections
        /\ past' = past
        /\ device_id' = device_id
        /\ obj'[last'.conn] = obj[last'.conn]]_vars

\* C32: a provider call on behalf of a connection starts only while the
\* connection still holds primary status: when HandleStreamMessageRequest is
\* called for a stream message of c, the election id of c that passed the
\* authorisation check equals the high-water mark of its role.
C32_ProviderCallWhilePrimary ==
  [][\A c \in Conns :
       (pc[c] = "provider" /\ pc'[c] = "read")
         => /\ HasValue(obj[c].eid)
            /\ obj[c].eid = PastValue(past, obj[c].role)]_vars

\* C33: no two writes to the stream of one connection are in progress at the
\* same time: while the handler of d is writing an error to its own stream
\* no other thread writes a response to d.
C33_StreamWritesSerialised ==
  [][\A d \in Conns :
       (pc[d] = "erroring" /\ pc'[d] = "erroring")
         => \A i \in 1..Len(sent') : sent'[i].to # d]_vars

\* C34: lock_ is held only by a thread inside a manager operation, never by
\* one that is invoking the provider, and no entry point takes it twice; so
\* a provider that calls SendStreamMessageToPrimary from inside a provider
\* call finds the lock free again, and every manager operation releases the
\* lock once its stream writes have returned.
C34_LockAlwaysReleased ==
  /\ [](lock => \E c \in Conns : InManager(c))
  /\ (lock ~> ~lock)

\* inside the provider call for c the provider has called
\* SendStreamMessageToPrimary and the message is on the primary's stream,
\* while the handler of another stream is running
C34_Witness ==
  \E c \in Conns, d \in Conns :
    /\ c # d /\ pc[c] = "provider" /\ pc[d] = "read"
    /\ ~lock
    /\ Len(sent) = 1 /\ sent[1].kind = "stream_message"

TypeOK ==
  /\ \A c \in Conns : obj[c].role \in Roles /\ obj[c].eid \in OptElection
  /\ \A r \in Roles : past[r] \in {NoEntry} \cup OptElection
  /\ Len(connections) <= MaxLongLen
  /\ rpc.pc \in {"idle", "write"} \cup ProviderSteps

====
